---- MODULE Spec2Model ----
(* Falling-block game engine of src/main.py: the Board state machine (spawn,  *)
(* hold, move, rotate, drops, lock, line clear, scoring) driven by the Game   *)
(* loop's key commands and gravity update.                                    *)
EXTENDS Integers, Sequences, FiniteSets, TLC

VARIABLES board, time_since_gravity, last, locks, soft_drops, held, above

vars == <<board, time_since_gravity, last, locks, soft_drops, held, above>>

(* ------------------------------------------------------------------------ *)
(* Bounds of the model                                                      *)
(* ------------------------------------------------------------------------ *)

\* Board(cols, rows): the playfield size the Board is constructed with.
cols == 5

rows == 5

\* Number of distinct outcomes of random.shuffle that are explored.
NumShuffles == 2

\* Pieces locked in one game before the model stops locking.
MaxLocks == 1

\* Successful soft drops (one point each) followed in one game.
MaxSoftDrops == 1

\* Elapsed frame times (milliseconds) handed to Game.update.
DtChoices == {800, 1600}

\* Elapsed frame times (milliseconds) of a game left to gravity.
GravityDts == {200, 400, 800, 1600}

\* Cap on the accumulated gravity time (milliseconds).
MaxTime == 2400

\* Translations tried when try_move is examined as a function.
MaxShift == 2

\* Drawn boards: the columns filled in a row of the drawn grid, the lines
\* cleared so far, and how far outside the playfield a drawn anchor may lie.
FilledChoices == {{}, {1}, 1..(cols - 1), 2..cols}

LinesChoices == {0, 9, 19}

(* ------------------------------------------------------------------------ *)
(* Configuration constants and the shape table                              *)
(* ------------------------------------------------------------------------ *)

LEVEL_SPEEDS == <<800, 720, 630, 550, 470, 380, 300, 220, 130, 100, 90, 80, 70, 60, 50>>

None == "None"

NoColor == <<>>

COLORS == [I |-> <<0, 240, 240>>, J |-> <<0, 0, 240>>, L |-> <<240, 160, 0>>,
           O |-> <<240, 240, 0>>, S |-> <<0, 240, 0>>, T |-> <<160, 0, 240>>,
           Z |-> <<240, 0, 0>>]

SHAPE_DEFS == [I |-> << <<".", ".", ".", ".">>,
                        <<"X", "X", "X", "X">>,
                        <<".", ".", ".", ".">>,
                        <<".", ".", ".", ".">> >>,
               J |-> << <<"X", ".", ".">>,
                        <<"X", "X", "X">>,
                        <<".", ".", ".">>,
                        <<".", ".", ".">> >>,
               L |-> << <<".", ".", "X">>,
                        <<"X", "X", "X">>,
                        <<".", ".", ".">>,
                        <<".", ".", ".">> >>,
               O |-> << <<".", "X", "X", ".">>,
                        <<".", "X", "X", ".">>,
                        <<".", ".", ".", ".">>,
                        <<".", ".", ".", ".">> >>,
               S |-> << <<".", "X", "X">>,
                        <<"X", "X", ".">>,
                        <<".", ".", ".">>,
                        <<".", ".", ".">> >>,
               T |-> << <<".", "X", ".">>,
                        <<"X", "X", "X">>,
                        <<".", ".", ".">>,
                        <<".", ".", ".">> >>,
               Z |-> << <<"X", "X", ".">>,
                        <<".", "X", "X">>,
                        <<".", ".", ".">>,
                        <<".", ".", ".">> >>]

\* list(SHAPE_DEFS.keys()): the kinds in definition order.
ShapeKeys == <<"I", "J", "L", "O", "S", "T", "Z">>

Kinds == {ShapeKeys[i] : i \in 1..Len(ShapeKeys)}

\* The (x, y) of the i-th character of a grid of strings, in row-major order.
GridPos(g, i) ==
  LET w == Len(g[1])
  IN  <<(i - 1) % w, (i - 1) \div w>>

shape_from_grid(g) ==
  LET w == Len(g[1])
      all == [i \in 1..(w * Len(g)) |-> GridPos(g, i)]
  IN  SelectSeq(all, LAMBDA c : g[c[2] + 1][c[1] + 1] = "X")

rotate_point(px, py) == <<3 - py, px>>

RECURSIVE RotateTimes(_, _)
RotateTimes(cur, r) ==
  IF r = 0 THEN cur
  ELSE RotateTimes([i \in 1..Len(cur) |-> rotate_point(cur[i][1], cur[i][2])], r - 1)

TETROMINO_SHAPES ==
  [k \in Kinds |-> [r \in 0..3 |-> RotateTimes(shape_from_grid(SHAPE_DEFS[k]), r)]]

\* The kick table with the two single-step horizontal kicks exchanged.
WALL_KICKS_left_first == << <<0, 0>>, <<-1, 0>>, <<1, 0>>, <<0, -1>>, <<2, 0>>, <<-2, 0>> >>

WALL_KICKS == << <<0, 0>>, <<1, 0>>, <<-1, 0>>, <<0, -1>>, <<2, 0>>, <<-2, 0>> >>

(* ------------------------------------------------------------------------ *)
(* Piece                                                                    *)
(* ------------------------------------------------------------------------ *)

Piece(kind, x, y, rotation) == [kind |-> kind, x |-> x, y |-> y, rotation |-> rotation]

\* Optional[Piece] = None
NoPiece == Piece(None, 0, 0, 0)

cells(p) ==
  LET shape == TETROMINO_SHAPES[p.kind][p.rotation]
  IN  [i \in 1..Len(shape) |-> <<p.x + shape[i][1], p.y + shape[i][2]>>]

rotated(p, dr) == Piece(p.kind, p.x, p.y, (p.rotation + dr) % 4)

(* ------------------------------------------------------------------------ *)
(* Board: construction, bag and spawning                                    *)
(* ------------------------------------------------------------------------ *)

\* The k-th outcome of random.shuffle on the list of kinds that is explored: a
\* rotation of the list. Outcome 0 deals I, Z, T, S, O, L, J (pop takes the
\* last element first), outcome 1 deals O, L, J, I, Z, T, S.
Shuffle(k) ==
  [i \in 1..Len(ShapeKeys) |-> ShapeKeys[((i + 3 * k) % Len(ShapeKeys)) + 1]]

Shuffles == 0..(NumShuffles - 1)

EmptyRow == [x \in 1..cols |-> NoColor]

EmptyGrid == [y \in 1..rows |-> EmptyRow]

\* The board's field dealt is history, not a field of Board: the kinds that
\* _next_from_bag has returned since the last refill, in the order drawn.
_refill_bag(b, sh) == [b EXCEPT !.bag = Shuffle(sh), !.dealt = <<>>]

\* _next_from_bag reading the last kind of the bag without removing it.
_next_from_bag_peek(b, sh) ==
  LET b1 == IF b.bag = <<>> THEN _refill_bag(b, sh) ELSE b
      kind == b1.bag[Len(b1.bag)]
  IN  [kind |-> kind, b |-> [b1 EXCEPT !.dealt = Append(b1.dealt, kind)]]

\* Returns the kind drawn and the board with the bag popped.
_next_from_bag(b, sh) ==
  LET b1 == IF b.bag = <<>> THEN _refill_bag(b, sh) ELSE b
      kind == b1.bag[Len(b1.bag)]
  IN  [kind |-> kind,
       b |-> [b1 EXCEPT !.bag = SubSeq(b1.bag, 1, Len(b1.bag) - 1),
                        !.dealt = Append(b1.dealt, kind)]]

\* self.next_queue.append(self._next_from_bag())
AppendNext(b, sh) ==
  LET d == _next_from_bag(b, sh)
  IN  [d.b EXCEPT !.next_queue = Append(d.b.next_queue, d.kind)]

RECURSIVE Prefill(_, _, _)
Prefill(b, n, sh) == IF n = 0 THEN b ELSE Prefill(AppendNext(b, sh), n - 1, sh)

\* Board.__init__
BoardInit(sh) ==
  Prefill([grid |-> EmptyGrid, current |-> NoPiece, hold |-> None, can_hold |-> TRUE,
           bag |-> <<>>, next_queue |-> <<>>, score |-> 0, lines_cleared |-> 0,
           level |-> 1, game_over |-> FALSE, dealt |-> <<>>], 5, sh)

_in_bounds(x, y) == 0 <= x /\ x < cols /\ y < rows

\* The cell test of _valid without the look into the grid.
CellValidBoundsOnly(b, c) ==
  IF c[2] < 0 THEN 0 <= c[1] /\ c[1] < cols
  ELSE _in_bounds(c[1], c[2])

CellValid(b, c) ==
  IF c[2] < 0 THEN 0 <= c[1] /\ c[1] < cols
  ELSE _in_bounds(c[1], c[2]) /\ b.grid[c[2] + 1][c[1] + 1] = NoColor

_valid(b, piece) ==
  LET cs == cells(piece)
  IN  \A i \in 1..Len(cs) : CellValid(b, cs[i])

\* The piece spawn() constructs for a kind.
SpawnPiece(kind) == Piece(kind, (cols \div 2) - 2, IF kind = "I" THEN -1 ELSE 0, 0)

\* spawn taking the front of the queue without appending a new kind.
spawn_without_append(b, sh) ==
  LET b1 == IF b.next_queue = <<>> THEN AppendNext(b, sh) ELSE b
      kind == Head(b1.next_queue)
      b2 == [b1 EXCEPT !.next_queue = Tail(b1.next_queue)]
      piece == SpawnPiece(kind)
  IN  IF ~_valid(b2, piece) THEN [b2 EXCEPT !.game_over = TRUE]
      ELSE [b2 EXCEPT !.current = piece, !.can_hold = TRUE]

spawn(b, sh) ==
  LET b1 == IF b.next_queue = <<>> THEN AppendNext(b, sh) ELSE b
      kind == Head(b1.next_queue)
      b2 == AppendNext([b1 EXCEPT !.next_queue = Tail(b1.next_queue)], sh)
      piece == SpawnPiece(kind)
  IN  IF ~_valid(b2, piece) THEN [b2 EXCEPT !.game_over = TRUE]
      ELSE [b2 EXCEPT !.current = piece, !.can_hold = TRUE]

\* hold_piece clearing can_hold before the branches, so that the spawn() of
\* the empty-slot branch sets it again.
hold_piece_flag_first(b, sh) ==
  IF ~b.can_hold \/ b.current = NoPiece THEN b
  ELSE LET cur_kind == b.current.kind
           b0 == [b EXCEPT !.can_hold = FALSE]
       IN  IF b.hold = None
           THEN spawn([b0 EXCEPT !.hold = cur_kind], sh)
           ELSE LET b2 == [b0 EXCEPT !.current = Piece(b.hold, (cols \div 2) - 2, 0, 0),
                                     !.hold = cur_kind]
                IN  IF ~_valid(b2, b2.current) THEN [b2 EXCEPT !.game_over = TRUE]
                    ELSE b2

hold_piece(b, sh) ==
  IF ~b.can_hold \/ b.current = NoPiece THEN b
  ELSE LET cur_kind == b.current.kind
           b1 == IF b.hold = None
                 THEN spawn([b EXCEPT !.hold = cur_kind], sh)
                 ELSE LET b2 == [b EXCEPT !.current = Piece(b.hold, (cols \div 2) - 2, 0, 0),
                                          !.hold = cur_kind]
                      IN  IF ~_valid(b2, b2.current) THEN [b2 EXCEPT !.game_over = TRUE]
                          ELSE b2
       IN  [b1 EXCEPT !.can_hold = FALSE]

(* ------------------------------------------------------------------------ *)
(* Board: movement and rotation                                             *)
(* ------------------------------------------------------------------------ *)

\* try_move building the candidate without passing the rotation on, so that
\* Piece's default rotation 0 is used.
try_move_default_rotation(b, dx, dy) ==
  IF b.current = NoPiece THEN [ok |-> FALSE, b |-> b]
  ELSE LET moved == Piece(b.current.kind, b.current.x + dx, b.current.y + dy, 0)
       IN  IF _valid(b, moved) THEN [ok |-> TRUE, b |-> [b EXCEPT !.current = moved]]
           ELSE [ok |-> FALSE, b |-> b]

\* Returns [ok, b]: the boolean result and the board afterwards.
try_move(b, dx, dy) ==
  IF b.current = NoPiece THEN [ok |-> FALSE, b |-> b]
  ELSE LET moved == Piece(b.current.kind, b.current.x + dx, b.current.y + dy,
                          b.current.rotation)
       IN  IF _valid(b, moved) THEN [ok |-> TRUE, b |-> [b EXCEPT !.current = moved]]
           ELSE [ok |-> FALSE, b |-> b]

Candidate(p, k) == Piece(p.kind, p.x + WALL_KICKS[k][1], p.y + WALL_KICKS[k][2], p.rotation)

\* The loop over WALL_KICKS from index k on; kick is the index committed (0: none).
RECURSIVE KickLoop(_, _, _)
KickLoop(b, rot, k) ==
  IF k > Len(WALL_KICKS) THEN [ok |-> FALSE, b |-> b, kick |-> 0]
  ELSE IF _valid(b, Candidate(rot, k))
       THEN [ok |-> TRUE, b |-> [b EXCEPT !.current = Candidate(rot, k)], kick |-> k]
       ELSE KickLoop(b, rot, k + 1)

try_rotate(b, dr) ==
  IF b.current = NoPiece THEN [ok |-> FALSE, b |-> b, kick |-> 0]
  ELSE KickLoop(b, rotated(b.current, dr), 1)

(* ------------------------------------------------------------------------ *)
(* Board: drops, locking, line clearing and scoring                         *)
(* ------------------------------------------------------------------------ *)

\* The probe of hard_drop_distance looking for the lowest valid row instead of
\* stopping at the first invalid one.
DropLoopLowest(b, tmp, dist) ==
  LET free == {n \in 0..(rows + 2) :
                 _valid(b, Piece(tmp.kind, tmp.x, tmp.y + n, tmp.rotation))}
  IN  dist + (CHOOSE n \in free : \A m \in free : m <= n)

RECURSIVE DropLoop(_, _, _)
DropLoop(b, tmp, dist) ==
  LET nxt == Piece(tmp.kind, tmp.x, tmp.y + 1, tmp.rotation)
  IN  IF _valid(b, nxt) THEN DropLoop(b, nxt, dist + 1) ELSE dist

hard_drop_distance(b) == IF b.current = NoPiece THEN 0 ELSE DropLoop(b, b.current, 0)

line_scores(cleared) ==
  CASE cleared = 1 -> 100 [] cleared = 2 -> 300 [] cleared = 3 -> 500
    [] cleared = 4 -> 800 [] OTHER -> 0

\* _apply_scoring recomputing the level before it scores the clear.
_apply_scoring_level_first(b, cleared) ==
  LET lines == b.lines_cleared + cleared
      lvl == 1 + (lines \div 10)
  IN  [b EXCEPT !.score = b.score + line_scores(cleared) * lvl,
                !.lines_cleared = lines,
                !.level = lvl]

\* _apply_scoring recomputing the level from the count before this clear.
_apply_scoring_stale_level(b, cleared) ==
  [b EXCEPT !.score = b.score + line_scores(cleared) * b.level,
            !.lines_cleared = b.lines_cleared + cleared,
            !.level = 1 + (b.lines_cleared \div 10)]

\* _apply_scoring counting one line for any clear.
_apply_scoring_counts_one(b, cleared) ==
  LET lines == b.lines_cleared + 1
  IN  [b EXCEPT !.score = b.score + line_scores(cleared) * b.level,
                !.lines_cleared = lines,
                !.level = 1 + (lines \div 10)]

_apply_scoring(b, cleared) ==
  LET lines == b.lines_cleared + cleared
  IN  [b EXCEPT !.score = b.score + line_scores(cleared) * b.level,
                !.lines_cleared = lines,
                !.level = 1 + (lines \div 10)]

\* The row test of the line clear written with all() in place of any().
RowAllEmpty(row) == \A x \in 1..Len(row) : row[x] = NoColor

RowNotFull(row) == \E x \in 1..Len(row) : row[x] = NoColor

\* _clear_lines_efficient adding the empty rows below the kept rows.
_clear_lines_empty_rows_last(b) ==
  LET new_grid == SelectSeq(b.grid, RowNotFull)
      cleared == rows - Len(new_grid)
  IN  IF cleared > 0
      THEN _apply_scoring([b EXCEPT !.grid = new_grid \o [y \in 1..cleared |-> EmptyRow]],
                          cleared)
      ELSE b

_clear_lines_efficient(b) ==
  LET new_grid == SelectSeq(b.grid, RowNotFull)
      cleared == rows - Len(new_grid)
  IN  IF cleared > 0
      THEN _apply_scoring([b EXCEPT !.grid = [y \in 1..cleared |-> EmptyRow] \o new_grid],
                          cleared)
      ELSE b

\* The loop of lock_piece over the piece's cells, from the i-th on.
RECURSIVE WriteCells(_, _, _)
WriteCells(b, cs, i) ==
  IF i > Len(cs) THEN b
  ELSE IF cs[i][2] < 0
       THEN WriteCells([b EXCEPT !.game_over = TRUE], cs, i + 1)
       ELSE WriteCells([b EXCEPT !.grid[cs[i][2] + 1][cs[i][1] + 1] = COLORS[b.current.kind]],
                       cs, i + 1)

\* lock_piece up to "self.current = None": the piece written into the grid.
Written(b) == [WriteCells(b, cells(b.current), 1) EXCEPT !.current = NoPiece]

\* lock_piece going from the write straight to the spawn.
LockWithoutClear(b) == Written(b)

\* lock_piece up to and including the line clear, before the spawn.
LockAndClear(b) == _clear_lines_efficient(Written(b))

lock_piece(b, sh) ==
  IF b.current = NoPiece THEN b
  ELSE spawn(LockAndClear(b), sh)

\* hard_drop up to the lock: the current piece moved down by drop rows.
Dropped(b, drop) ==
  [b EXCEPT !.current = Piece(b.current.kind, b.current.x, b.current.y + drop,
                              b.current.rotation)]

hard_drop(b, sh) ==
  IF b.current = NoPiece THEN b
  ELSE LET drop == hard_drop_distance(b)
           b1 == lock_piece(Dropped(b, drop), sh)
       IN  [b1 EXCEPT !.score = b1.score + 2 * drop]

soft_drop(b) ==
  LET m == try_move(b, 0, 1)
  IN  IF m.ok THEN [ok |-> TRUE, b |-> [m.b EXCEPT !.score = m.b.score + 1]]
      ELSE [ok |-> FALSE, b |-> m.b]

ghost_cells(b) ==
  IF b.current = NoPiece THEN <<>>
  ELSE [i \in 1..Len(cells(b.current)) |->
          <<cells(b.current)[i][1], cells(b.current)[i][2] + hard_drop_distance(b)>>]

(* ------------------------------------------------------------------------ *)
(* Game: key commands and the gravity update                                *)
(* ------------------------------------------------------------------------ *)

Min(a, c) == IF a < c THEN a ELSE c

gravity_interval(b) == LEVEL_SPEEDS[Min(b.level - 1, Len(LEVEL_SPEEDS) - 1) + 1]

\* The while loop of Game.update: t is time_since_gravity. Returns the board,
\* the time left, whether lock_piece was called, and the board it was called on.
\* The while loop of Game.update without the break after lock_piece: it goes
\* on with the piece lock_piece spawned while intervals are left.
RECURSIVE GravityLoopNoBreak(_, _, _, _)
GravityLoopNoBreak(b, t, interval, sh) ==
  IF t >= interval
  THEN LET m == try_move(b, 0, 1)
       IN  IF m.ok THEN GravityLoopNoBreak(m.b, t - interval, interval, sh)
           ELSE [GravityLoopNoBreak(lock_piece(b, sh), t - interval, interval, sh)
                   EXCEPT !.locked = TRUE, !.at = b]
  ELSE [b |-> b, t |-> t, locked |-> FALSE, at |-> b]

\* The while loop of Game.update without the lock: a piece that cannot move
\* down stays where it is.
RECURSIVE GravityLoopNoLock(_, _, _, _)
GravityLoopNoLock(b, t, interval, sh) ==
  IF t >= interval
  THEN LET m == try_move(b, 0, 1)
       IN  IF m.ok THEN GravityLoopNoLock(m.b, t - interval, interval, sh)
           ELSE [b |-> b, t |-> t - interval, locked |-> FALSE, at |-> b]
  ELSE [b |-> b, t |-> t, locked |-> FALSE, at |-> b]

RECURSIVE GravityLoop(_, _, _, _)
GravityLoop(b, t, interval, sh) ==
  IF t >= interval
  THEN LET m == try_move(b, 0, 1)
       IN  IF m.ok THEN GravityLoop(m.b, t - interval, interval, sh)
           ELSE [b |-> lock_piece(b, sh), t |-> t - interval, locked |-> TRUE, at |-> b]
  ELSE [b |-> b, t |-> t, locked |-> FALSE, at |-> b]

update(b, t, dt, sh) ==
  IF b.game_over THEN [b |-> b, t |-> t, locked |-> FALSE, at |-> b]
  ELSE GravityLoop(b, t + dt, gravity_interval(b), sh)

\* Whether the spawn() run on board b finds the new piece invalid.
SpawnBlocked(b) == ~_valid(b, SpawnPiece(Head(b.next_queue)))

\* What spawn() found when run on board b.
SpawnFound(b) == IF SpawnBlocked(b) THEN "fail" ELSE "ok"

\* The last command: the operation called, what it returned (for update:
\* whether it locked a piece; for hold_piece: whether it changed the board),
\* the wall kick a rotation committed (0: none) and
\* what the spawn() it ran found ("none": it ran no spawn).
Last(op, ret, kick, spawned) == [op |-> op, ret |-> ret, kick |-> kick, spawn |-> spawned]

\* The shuffle outcomes an operation on the board can meet: random.shuffle
\* runs only when a draw finds the bag empty.
ShuffleChoices(b) == IF b.bag = <<>> THEN Shuffles ELSE {0}

Init ==
  /\ \E sh \in Shuffles : board = BoardInit(sh)
  /\ time_since_gravity = 0
  /\ last = Last("init", FALSE, 0, "none")
  /\ locks = 0
  /\ soft_drops = 0
  /\ held = FALSE
  /\ above = FALSE

Started == last.op /= "init"

\* The model follows a game up to its MaxLocks-th lock and the piece after
\* it; a drawn board stands for a game in progress and takes one command.
MayLock == last.op = "drawn" \/ locks < MaxLocks

\* The current piece of board b has a cell above row 0.
AboveTop(b) == \E i \in 1..Len(cells(b.current)) : cells(b.current)[i][2] < 0

\* Game.__init__: self.board.spawn()
Start ==
  /\ ~Started
  /\ \E sh \in ShuffleChoices(board) : board' = spawn(board, sh)
  /\ last' = Last("spawn", FALSE, 0, SpawnFound(board))
  /\ UNCHANGED <<time_since_gravity, locks, soft_drops, held, above>>

\* handle_input: "if self.board.game_over: continue"
Ignored ==
  /\ board' = board
  /\ last' = Last("ignored", FALSE, 0, "none")

\* K_LEFT / K_RIGHT (and the held-key repeat): self.board.try_move(dx, 0)
KeyMove(dx) ==
  /\ Started
  /\ IF board.game_over THEN Ignored
     ELSE LET m == try_move(board, dx, 0)
          IN  /\ board' = m.b
              /\ last' = Last("try_move", m.ok, 0, "none")
  /\ UNCHANGED <<time_since_gravity, locks, soft_drops, held, above>>

KeyLeft == KeyMove(-1)

KeyRight == KeyMove(1)

\* K_DOWN: self.board.soft_drop()
KeyDown ==
  /\ Started
  /\ IF board.game_over THEN Ignored /\ soft_drops' = soft_drops
     ELSE LET m == soft_drop(board)
          IN  /\ m.ok => soft_drops < MaxSoftDrops
              /\ board' = m.b
              /\ last' = Last("soft_drop", m.ok, 0, "none")
              /\ soft_drops' = IF m.ok THEN soft_drops + 1 ELSE soft_drops
  /\ UNCHANGED <<time_since_gravity, locks, held, above>>

\* The rotation keys handled without the game_over check.
KeyRotateUnguarded(dr) ==
  /\ Started
  /\ LET m == try_rotate(board, dr)
     IN  /\ board' = m.b
         /\ last' = Last("try_rotate", m.ok, m.kick, "none")
  /\ UNCHANGED <<time_since_gravity, locks, soft_drops, held, above>>

\* K_UP / K_x: try_rotate(1); K_z: try_rotate(-1)
KeyRotate(dr) ==
  /\ Started
  /\ IF board.game_over THEN Ignored
     ELSE LET m == try_rotate(board, dr)
          IN  /\ board' = m.b
              /\ last' = Last("try_rotate", m.ok, m.kick, "none")
  /\ UNCHANGED <<time_since_gravity, locks, soft_drops, held, above>>

KeyRotateCW == KeyRotate(1)

KeyRotateCCW == KeyRotate(-1)

\* K_SPACE: self.board.hard_drop()
KeySpace ==
  /\ Started
  /\ IF board.game_over THEN Ignored /\ UNCHANGED <<locks, held, above>>
     ELSE LET at == Dropped(board, hard_drop_distance(board))
              found == IF board.current = NoPiece THEN "none"
                       ELSE SpawnFound(LockAndClear(at))
          IN  /\ board.current /= NoPiece => MayLock
              /\ above' = (above \/ (board.current /= NoPiece /\ AboveTop(at)))
              /\ \E sh \in ShuffleChoices(board) : board' = hard_drop(board, sh)
              /\ last' = Last("hard_drop", FALSE, 0, found)
              /\ locks' = IF board.current /= NoPiece THEN locks + 1 ELSE locks
              /\ held' = (held /\ found /= "ok")
  /\ UNCHANGED <<time_since_gravity, soft_drops>>

\* K_c: self.board.hold_piece()
KeyHold ==
  /\ Started
  /\ IF board.game_over THEN Ignored /\ held' = held
     ELSE /\ \E sh \in ShuffleChoices(board) : board' = hold_piece(board, sh)
          /\ last' = Last("hold_piece", board' /= board, 0,
                          IF board.can_hold /\ board.current /= NoPiece /\ board.hold = None
                          THEN SpawnFound(board) ELSE "none")
          /\ held' = (held \/ board' /= board)
  /\ UNCHANGED <<time_since_gravity, locks, soft_drops, above>>

\* Game.update(dt) with dt drawn from dts; bounded: the lock bound applies.
Tick(dts, bounded) ==
  /\ Started
  /\ \E dt \in dts, sh \in ShuffleChoices(board) :
       LET u == update(board, time_since_gravity, dt, sh)
           locked == u.locked /\ board.current /= NoPiece
           found == IF locked THEN SpawnFound(LockAndClear(u.at)) ELSE "none"
       IN  /\ time_since_gravity + dt <= MaxTime
           /\ (bounded /\ locked) => MayLock
           /\ board' = u.b
           /\ time_since_gravity' = u.t
           /\ locks' = IF locked THEN locks + 1 ELSE locks
           /\ last' = Last("update", locked, 0, found)
           /\ held' = (held /\ found /= "ok")
           /\ above' = (above \/ (locked /\ AboveTop(u.at)))
  /\ UNCHANGED soft_drops

Update == Tick(DtChoices, TRUE)

Next ==
  \/ Start
  \/ KeyLeft
  \/ KeyRight
  \/ KeyDown
  \/ KeyRotateCW
  \/ KeyRotateCCW
  \/ KeySpace
  \/ KeyHold
  \/ Update

Spec == Init /\ [][Next]_vars

(* ------------------------------------------------------------------------ *)
(* Boards drawn from bounded sets, for the operations taken as functions    *)
(* ------------------------------------------------------------------------ *)

\* Score of a game that cleared n lines one at a time and never dropped.
RECURSIVE ScoreOfSingles(_)
ScoreOfSingles(n) ==
  IF n = 0 THEN 0 ELSE ScoreOfSingles(n - 1) + 100 * (1 + ((n - 1) \div 10))

DrawnRow(filled) == [x \in 1..cols |-> IF x \in filled THEN COLORS["I"] ELSE NoColor]

CellCount(g) ==
  Cardinality({c \in (1..Len(g)) \X (1..cols) : g[c[1]][c[2]] /= NoColor})

\* Grids of drawn rows whose cell count fits pieces of four cells and the
\* lines cleared so far; the top row, where pieces spawn, is free, and as
\* locked pieces rest on the floor or on cells, no row lies above a free row.
DrawnGrids(lines) ==
  {g \in [1..rows -> {DrawnRow(f) : f \in FilledChoices}] :
     /\ g[1] = EmptyRow
     /\ \A y \in 2..rows : g[y] = EmptyRow => g[y - 1] = EmptyRow
     /\ (CellCount(g) + cols * lines) % 4 = 0}

DrawnAnchors == [kind : Kinds, x : (0 - 2)..(cols - 1), y : (0 - 1)..(rows - 1),
                 rotation : 0..3]

DrawnBoard(g, lines, p) ==
  [spawn(BoardInit(0), 0) EXCEPT !.grid = g, !.current = p, !.lines_cleared = lines,
                                 !.level = 1 + (lines \div 10),
                                 !.score = ScoreOfSingles(lines)]

InitDrawn ==
  /\ \E lines \in LinesChoices : \E g \in DrawnGrids(lines) : \E p \in DrawnAnchors :
       /\ _valid([grid |-> g], p)
       /\ board = DrawnBoard(g, lines, p)
       /\ locks = (CellCount(g) + cols * lines) \div 4
  /\ time_since_gravity = 0
  /\ last = Last("drawn", FALSE, 0, "none")
  /\ soft_drops = 0
  /\ held = FALSE
  /\ above = FALSE

\* One locking command (hard drop or gravity) on a drawn board.
Drawn == last.op = "drawn"

NextDrawn ==
  \/ Drawn /\ KeySpace
  \/ Drawn /\ Update

SpecDrawn == InitDrawn /\ [][NextDrawn]_vars

(* ------------------------------------------------------------------------ *)
(* A game left to gravity: no key is ever pressed                           *)
(* ------------------------------------------------------------------------ *)

\* Game.run calling update(dt) frame after frame, whatever the game has locked.
Gravity == Tick(GravityDts, FALSE)

NextGravity ==
  \/ Start
  \/ Gravity

\* Game.run never stops calling update: while the game is not over, update
\* steps keep coming (once it is over, update returns at once).
UpdateKeepsRunning == []<>board.game_over \/ []<><<Gravity>>_vars

\* The constructor's spawn is not held back, and the frame loop calls update
\* for ever.
SpecGravity == Init /\ [][NextGravity]_vars /\ WF_vars(Start) /\ UpdateKeepsRunning

(* ------------------------------------------------------------------------ *)
(* Properties                                                               *)
(* ------------------------------------------------------------------------ *)

CellSet(p) == {cells(p)[i] : i \in 1..Len(cells(p))}

Shifted(p, dx, dy) == Piece(p.kind, p.x + dx, p.y + dy, p.rotation)

\* The rows of a grid in which every cell is occupied.
FullRowIdx(g) == {y \in 1..Len(g) : \A x \in 1..Len(g[y]) : g[y][x] /= NoColor}

\* The current piece rests: it cannot move down, so the next gravity step or
\* a hard drop locks it where it is.
Resting(b) == b.current /= NoPiece /\ ~_valid(b, Shifted(b.current, 0, 1))

\* The score table of a clear of k rows.
ClearPoints(k) == IF k \in 1..4 THEN <<100, 300, 500, 800>>[k] ELSE 0

\* C1: after every completed Board operation exactly one of "a current piece
\* is present" and "game_over is true" holds.
C1_ExactlyOneOfCurrentAndGameOver ==
  Started => ((board.current /= NoPiece) /= board.game_over)

\* C2: once game_over is true it stays true, and every later command leaves
\* grid, current piece, hold slot, next-queue, score, lines_cleared and level
\* unchanged.
C2_GameOverIsTerminal ==
  [][board.game_over =>
       /\ board'.game_over
       /\ board'.grid = board.grid
       /\ board'.current = board.current
       /\ board'.hold = board.hold
       /\ board'.next_queue = board.next_queue
       /\ board'.score = board.score
       /\ board'.lines_cleared = board.lines_cleared
       /\ board'.level = board.level]_vars

\* A command was issued after the game ended with a piece still installed.
C2_Witness ==
  board.game_over /\ last.op = "ignored" /\ board.current /= NoPiece

\* C3: whenever spawn() finds the new piece invalid, the operation that ran it
\* ends with game_over true and no current piece.
C3_FailedSpawnLeavesNoCurrent ==
  last.spawn = "fail" => (board.game_over /\ board.current = NoPiece)

\* C4: try_move(dx, dy) either returns true and changes only the anchor of the
\* current piece, by exactly (dx, dy), or returns false and changes nothing.
C4_TryMoveFrame ==
  \A dx \in (0 - MaxShift)..MaxShift, dy \in (0 - MaxShift)..MaxShift :
    LET m == try_move(board, dx, dy)
    IN  \/ /\ m.ok
           /\ board.current /= NoPiece
           /\ m.b = [board EXCEPT !.current = [kind |-> board.current.kind,
                                               x |-> board.current.x + dx,
                                               y |-> board.current.y + dy,
                                               rotation |-> board.current.rotation]]
        \/ /\ ~m.ok
           /\ m.b = board

\* A move command succeeded on a rotated piece.
C4_Witness ==
  last.op = "try_move" /\ last.ret /\ board.current.rotation /= 0

\* The kick offsets in the order the claim gives them.
KickOrder == << <<0, 0>>, <<1, 0>>, <<0 - 1, 0>>, <<0, 0 - 1>>, <<2, 0>>, <<0 - 2, 0>> >>

\* C5: try_rotate(dr) commits the rotated piece shifted by the first offset of
\* (0,0), (+1,0), (-1,0), (0,-1), (+2,0), (-2,0) that makes it valid; if none
\* does, it returns false and changes nothing.
C5_FirstValidKick ==
  board.current /= NoPiece =>
    \A dr \in {1, 0 - 1} :
      LET rot == [board.current EXCEPT !.rotation = (board.current.rotation + dr) % 4]
          ok == {k \in 1..Len(KickOrder) :
                   _valid(board, Shifted(rot, KickOrder[k][1], KickOrder[k][2]))}
          m == try_rotate(board, dr)
      IN  IF ok = {} THEN ~m.ok /\ m.b = board
          ELSE LET first == CHOOSE k \in ok : \A j \in ok : k <= j
               IN  /\ m.ok
                   /\ m.b = [board EXCEPT !.current =
                               Shifted(rot, KickOrder[first][1], KickOrder[first][2])]

\* A rotation committed the (+1,0) kick although the (-1,0) kick, two columns
\* to the left of the committed piece, was valid too.
C5_Witness ==
  /\ last.op = "try_rotate"
  /\ last.ret
  /\ last.kick = 2
  /\ _valid(board, Shifted(board.current, 0 - 2, 0))

\* C6: on an empty board with an O piece at the default anchor, every
\* try_rotate returns true and leaves the set of occupied cells unchanged.
C6_RotatingOKeepsCells ==
  [][(/\ board.current.kind = "O"
      /\ board.grid = EmptyGrid
      /\ board.current.x = SpawnPiece("O").x
      /\ board.current.y = SpawnPiece("O").y
      /\ last'.op = "try_rotate")
       => (last'.ret /\ CellSet(board'.current) = CellSet(board.current))]_vars

\* What _clear_lines_efficient has to make of board b: c is the result.
ClearedAsSpecified(b, c) ==
  LET full == FullRowIdx(b.grid)
      k == Cardinality(full)
  IN  IF k = 0
      THEN /\ c.grid = b.grid
           /\ c.score = b.score
           /\ c.lines_cleared = b.lines_cleared
           /\ c.level = b.level
      ELSE /\ Len(c.grid) = rows
           /\ \A y \in 1..rows : Len(c.grid[y]) = cols
           /\ \A y \in 1..k : \A x \in 1..cols : c.grid[y][x] = NoColor
           /\ \A y \in (1..rows) \ full :
                c.grid[y + Cardinality({f \in full : f > y})] = b.grid[y]
           /\ c.lines_cleared = b.lines_cleared + k

\* C7: clearing k > 0 full rows leaves k empty rows followed by the other rows
\* in their order, in a grid of the same size, and adds k to lines_cleared;
\* with no full row nothing changes.
C7_LineClear ==
  Resting(board) =>
    ClearedAsSpecified(Written(board), _clear_lines_efficient(Written(board)))

\* A hard drop cleared two rows of a drawn board and kept a row with cells.
C7_Witness ==
  /\ last.op = "hard_drop"
  /\ board.lines_cleared = 2
  /\ board.grid[1] = EmptyRow
  /\ board.grid[2] = EmptyRow
  /\ \E y \in 3..rows : board.grid[y] /= EmptyRow

\* C8: a lock that clears k rows (k in 1..4) at level L adds 100L, 300L, 500L
\* or 800L to the score.
C8_LockScore ==
  Resting(board) =>
    \A sh \in ShuffleChoices(board) :
      LET k == Cardinality(FullRowIdx(Written(board).grid))
      IN  k \in 1..4 =>
            lock_piece(board, sh).score = board.score + ClearPoints(k) * board.level

\* Gravity locked a piece whose clear took the game from 9 lines at level 1 to
\* level 2, scored at level 1.
C8_Witness ==
  /\ last.op = "update"
  /\ last.ret
  /\ board.level = 2
  /\ board.lines_cleared = 10
  /\ board.score = ScoreOfSingles(9) + 100

\* C9: level equals 1 + floor(lines_cleared / 10).
C9_LevelFromLines == board.level = 1 + (board.lines_cleared \div 10)

\* A lock cleared rows at level 2 and reached level 3.
C9_Witness ==
  /\ last.op \in {"hard_drop", "update"}
  /\ board.lines_cleared >= 20
  /\ board.level = 3

\* C10: hard_drop locks the piece moved down by d rows, d the largest
\* translation valid at every row on the way, and adds 2d and the score of
\* the lock's line clear.
C10_HardDrop ==
  (board.current /= NoPiece /\ _valid(board, board.current)) =>
    \A sh \in ShuffleChoices(board) :
      LET d == CHOOSE n \in 0..(rows + 2) :
                 /\ \A m \in 1..n : _valid(board, Shifted(board.current, 0, m))
                 /\ ~_valid(board, Shifted(board.current, 0, n + 1))
          landed == [board EXCEPT !.current = Shifted(board.current, 0, d)]
          k == Cardinality(FullRowIdx(Written(landed).grid))
          h == hard_drop(board, sh)
      IN  /\ hard_drop_distance(board) = d
          /\ h.grid = LockAndClear(landed).grid
          /\ h.score = board.score + 2 * d + ClearPoints(k) * board.level

\* A hard drop fell some rows and its lock cleared a line.
C10_Witness ==
  /\ last.op = "hard_drop"
  /\ board.lines_cleared = 1
  /\ board.score > 100

SeqSet(s) == {s[i] : i \in 1..Len(s)}

\* C11: every block of 7 consecutive draws from the bag that starts at a
\* refill contains each of I, J, L, O, S, T, Z exactly once: the draws since
\* the last refill never repeat a kind, a refill comes only after 7 draws, and
\* a complete block holds all 7 kinds.
C11_BagBlockHoldsEachKindOnce ==
  LET d == board.dealt
  IN  /\ \A i, j \in 1..Len(d) : i /= j => d[i] /= d[j]
      /\ Len(d) + Len(board.bag) = 7
      /\ Len(d) = 7 => SeqSet(d) = {"I", "J", "L", "O", "S", "T", "Z"}

\* The bag was refilled during the game and the first kind of the second
\* block went to the end of the next-queue.
C11_Witness ==
  /\ Started
  /\ Len(board.dealt) = 1
  /\ board.next_queue[Len(board.next_queue)] = board.dealt[1]

\* C12: the next-queue holds at least 5 kinds after construction and after
\* every spawn, successful or not, from lock_piece or hold_piece; a spawn
\* consumes exactly the front kind and appends exactly one kind drawn from the
\* bag.
C12_SpawnTurnsQueue ==
  [][/\ Len(board.next_queue) >= 5
     /\ Len(board'.next_queue) >= 5
     /\ last'.spawn /= "none" =>
          LET q == board.next_queue
              d == board'.dealt
              k == d[Len(d)]
          IN  /\ board'.next_queue = Append(Tail(q), k)
              /\ \/ d = Append(board.dealt, k)
                 \/ board.bag = <<>> /\ d = <<k>>
              /\ Len(board'.bag) = (IF board.bag = <<>> THEN 7 ELSE Len(board.bag)) - 1
              /\ last'.spawn = "ok" => board'.current = SpawnPiece(Head(q))]_vars

\* The spawn run by hold_piece found its piece blocked, and the spawn run by
\* a lock before it had succeeded.
C12_Witness ==
  /\ last.op = "hold_piece"
  /\ last.spawn = "fail"
  /\ locks = 1
  /\ Len(board.next_queue) = 5

\* C13: after a hold_piece call that changed the state, every further
\* hold_piece call leaves the board unchanged until a piece has been locked
\* and the next piece spawned.
C13_HoldOncePerPiece ==
  held => \A sh \in Shuffles : hold_piece(board, sh) = board

\* A second hold was asked for the same piece, in a running game, and changed
\* nothing.
C13_Witness ==
  /\ held
  /\ last.op = "hold_piece"
  /\ ~last.ret
  /\ ~board.game_over
  /\ board.current /= NoPiece

\* C14: hold_piece used with an occupied hold slot makes the held kind the
\* current piece, at the anchor and rotation spawn() gives a fresh piece of
\* that kind (for the long bar: its starting row), and puts the previous
\* current kind into the hold slot.
C14_HoldSwapUsesSpawnAnchor ==
  [][(/\ last'.op = "hold_piece"
      /\ board.can_hold
      /\ board.current /= NoPiece
      /\ board.hold /= None)
       => (/\ board'.current = SpawnPiece(board.hold)
           /\ board'.hold = board.current.kind)]_vars

\* C15: one update call performs at most one lock_piece, however many gravity
\* intervals fit in the accumulated time: at most one piece is written into
\* the grid and one kind leaves the next-queue, and the piece spawned by the
\* lock is still where spawn() put it when update returns.
C15_UpdateLocksAtMostOnce ==
  [][last'.op = "update" =>
       IF last'.ret
       THEN /\ CellCount(board'.grid) + cols * (board'.lines_cleared - board.lines_cleared)
                 <= CellCount(board.grid) + 4
            /\ SubSeq(board'.next_queue, 1, Len(board.next_queue) - 1)
                 = Tail(board.next_queue)
            /\ last'.spawn = "ok" => board'.current = SpawnPiece(Head(board.next_queue))
            /\ last'.spawn = "fail" => board'.current = NoPiece
       ELSE /\ board'.grid = board.grid
            /\ board'.next_queue = board.next_queue]_vars

\* An update locked a piece and returned with a further whole gravity
\* interval of time left over and the new piece at its spawn anchor.
C15_Witness ==
  /\ last.op = "update"
  /\ last.ret
  /\ last.spawn = "ok"
  /\ time_since_gravity >= gravity_interval(board)
  /\ board.current = SpawnPiece(board.current.kind)

\* Every cell of the current piece at or below row 0 lies in the grid and is
\* empty there.
NoOverwrite(b) ==
  \A i \in 1..Len(cells(b.current)) :
    LET c == cells(b.current)[i]
    IN  c[2] >= 0 => (_in_bounds(c[1], c[2]) /\ b.grid[c[2] + 1][c[1] + 1] = NoColor)

\* C16: lock_piece never writes into an occupied cell: in every reachable
\* state of a running game, the board a hard drop hands to lock_piece and the
\* board any gravity update hands to lock_piece have every cell of the piece
\* with y >= 0 empty in the grid.
C16_LockWritesEmptyCells ==
  (Started /\ ~board.game_over /\ board.current /= NoPiece) =>
    /\ NoOverwrite(Dropped(board, hard_drop_distance(board)))
    /\ \A dt \in DtChoices, sh \in Shuffles :
         LET u == update(board, time_since_gravity, dt, sh)
         IN  u.locked => NoOverwrite(u.at)

\* After a lock and a hold, the current piece rests on a cell of the locked
\* piece: the next gravity step or hard drop locks it there.
C16_Witness ==
  /\ locks = 1
  /\ held
  /\ ~board.game_over
  /\ board.current /= NoPiece
  /\ _valid(board, board.current)
  /\ \E i \in 1..Len(cells(board.current)) :
       LET c == cells(board.current)[i]
       IN  c[2] >= 0 /\ c[2] + 1 < rows /\ board.grid[c[2] + 2][c[1] + 1] /= NoColor

\* C17: a single lock_piece clears at most 4 rows, so a clear never meets the
\* score table's default of 0 points: whenever lines_cleared grows, it grows
\* by at most 4 and the score grows by at least 100 times the level.
C17_LockClearsAtMostFourRows ==
  [][/\ board'.lines_cleared - board.lines_cleared <= 4
     /\ board'.lines_cleared > board.lines_cleared =>
          board'.score >= board.score + 100 * board.level]_vars

\* On a board of more than four rows a hard drop cleared four rows at once.
C17_Witness ==
  /\ rows > 4
  /\ last.op = "hard_drop"
  /\ board.lines_cleared = 4
  /\ board.score >= 800

\* C18: after every completed operation every row of the grid has at least
\* one empty cell.
C18_NoFullRowRemains == FullRowIdx(board.grid) = {}

\* Gravity locked a piece that filled a row; the row was cleared and rows
\* with cells remain.
C18_Witness ==
  /\ last.op = "update"
  /\ last.ret
  /\ board.lines_cleared \in {1, 10, 20}
  /\ board.grid /= EmptyGrid

\* Move, rotate, soft drop, hold and spawn leave the grid of board b alone.
GridKept(b) ==
  /\ \A dx \in {0 - 1, 1} : try_move(b, dx, 0).b.grid = b.grid
  /\ \A dr \in {0 - 1, 1} : try_rotate(b, dr).b.grid = b.grid
  /\ soft_drop(b).b.grid = b.grid
  /\ \A sh \in Shuffles : hold_piece(b, sh).grid = b.grid /\ spawn(b, sh).grid = b.grid

\* C19: as long as no piece was locked with a cell above row 0, the occupied
\* cells number 4 * (pieces locked) - cols * lines_cleared; move, rotate, soft
\* drop, hold and spawn never change the grid.
C19_CellConservation ==
  /\ ~above => CellCount(board.grid) = 4 * locks - cols * board.lines_cleared
  /\ GridKept(board)

\* A lock that cleared rows kept the count, with cells left in the grid.
C19_Witness ==
  /\ ~above
  /\ last.op = "hard_drop"
  /\ board.lines_cleared \in {2, 11, 21}
  /\ CellCount(board.grid) > 0

\* C20: from a fresh board wider than a piece, with update called again and
\* again with positive elapsed time and no key pressed, every current piece
\* is eventually locked and game_over eventually becomes true.
C20_GravityEndsTheGame ==
  /\ <>board.game_over
  /\ \A n \in 0..((rows * cols) \div 4) :
       [](locks = n /\ board.current /= NoPiece => <>(locks > n))

\* Gravity alone locked several pieces and the game ended on a blocked spawn.
C20_Witness ==
  /\ board.game_over
  /\ board.current = NoPiece
  /\ last.op = "update"
  /\ last.spawn = "fail"
  /\ locks >= 2
  /\ FullRowIdx(board.grid) = {}

====
